---- MODULE Spec2Model ----
(***************************************************************************)
(* One-way ANOVA application (src/ANOVA_MAIN.py, class AnovaApp) and the   *)
(* synthetic data generator (src/Data_Generator.py, classes               *)
(* ANOVADataGenerator and DataGeneratorGUI).                               *)
(*                                                                         *)
(* Numbers.  The program computes in IEEE doubles (numpy.float64).  The    *)
(* model computes in exact rationals extended with nan, +inf and -inf:     *)
(* a value is a record [k, n, d] with k = "num" (the rational n/d in       *)
(* lowest terms, d > 0), k = "nan", or k = "inf" (n = 1 or -1).  Division  *)
(* follows numpy: x/0 is nan for x = 0 and +-inf otherwise, and raises     *)
(* nothing.  Rounding error of the doubles is not modelled.                *)
(***************************************************************************)
EXTENDS Integers, Sequences, FiniteSets, TLC

(***************************************************************************)
(* Bounds of the model.                                                    *)
(***************************************************************************)
MaxCols == 3        \* columns of a CSV file
MaxRows == 2        \* rows of a CSV file (a header row included)
MaxVal == 2         \* largest value of a constant column
MaxLoads == 2       \* load_csv events of the application run
MaxRuns == 2        \* run_anova events (worker threads) of the application run
MaxAlphaLen == 3    \* characters typed into the alpha entry
MaxDay == 5         \* largest day of the month chosen in the generator
MaxYear == 1        \* largest two-digit year chosen in the generator
MaxReplications == 2 \* largest replication count entered in the generator
MaxGenerations == 1 \* clicks on Generate Data

(***************************************************************************)
(* Extended rationals.                                                     *)
(***************************************************************************)
Abs(x) == IF x < 0 THEN -x ELSE x

RECURSIVE GCD(_, _)
GCD(a, b) == IF b = 0 THEN a ELSE GCD(b, a % b)

Num(n, d) ==
    LET s == IF d < 0 THEN -1 ELSE 1
        g == GCD(Abs(n), Abs(d))
    IN  [k |-> "num", n |-> (s * n) \div g, d |-> (s * d) \div g]

NaN == [k |-> "nan", n |-> 0, d |-> 1]
Inf(sign) == [k |-> "inf", n |-> sign, d |-> 1]

Int2F(i) == Num(i, 1)
IsNum(a) == a.k = "num"
IsNaN(a) == a.k = "nan"
Sign(a) == IF a.n > 0 THEN 1 ELSE IF a.n < 0 THEN -1 ELSE 0

FNeg(a) == IF IsNaN(a) THEN NaN ELSE [a EXCEPT !.n = -a.n]

FAdd(a, b) ==
    IF IsNaN(a) \/ IsNaN(b) THEN NaN
    ELSE IF IsNum(a) /\ IsNum(b) THEN Num(a.n * b.d + b.n * a.d, a.d * b.d)
    ELSE IF IsNum(a) THEN b
    ELSE IF IsNum(b) THEN a
    ELSE IF a.n = b.n THEN a ELSE NaN

FSub(a, b) == FAdd(a, FNeg(b))

FMul(a, b) ==
    IF IsNaN(a) \/ IsNaN(b) THEN NaN
    ELSE IF IsNum(a) /\ IsNum(b) THEN Num(a.n * b.n, a.d * b.d)
    ELSE IF Sign(a) * Sign(b) = 0 THEN NaN
    ELSE Inf(Sign(a) * Sign(b))

\* numpy float64 division: a zero divisor gives nan or a signed infinity.
FDiv(a, b) ==
    IF IsNaN(a) \/ IsNaN(b) THEN NaN
    ELSE IF IsNum(b) /\ b.n = 0
         THEN IF Sign(a) = 0 THEN NaN ELSE Inf(Sign(a))
    ELSE IF IsNum(a) /\ IsNum(b) THEN Num(a.n * b.d, a.d * b.n)
    ELSE IF IsNum(a) THEN Int2F(0)
    ELSE IF IsNum(b) THEN Inf(Sign(a) * Sign(b))
    ELSE NaN

\* a < b on doubles: false whenever either side is nan.
FLt(a, b) ==
    IF IsNaN(a) \/ IsNaN(b) THEN FALSE
    ELSE IF IsNum(a) /\ IsNum(b) THEN a.n * b.d < b.n * a.d
    ELSE IF IsNum(a) THEN b.n > 0
    ELSE IF IsNum(b) THEN a.n < 0
    ELSE a.n < b.n

FGt(a, b) == FLt(b, a)
FAbs(a) == IF IsNaN(a) THEN NaN ELSE [a EXCEPT !.n = Abs(a.n)]

RECURSIVE FSum(_)
FSum(s) == IF s = <<>> THEN Int2F(0) ELSE FAdd(FSum(SubSeq(s, 1, Len(s) - 1)), s[Len(s)])

RECURSIVE Pow10(_)
Pow10(e) == IF e = 0 THEN 1 ELSE 10 * Pow10(e - 1)

(***************************************************************************)
(* Text.  A text is a sequence of one-character strings.                   *)
(***************************************************************************)
Digit == <<"0", "1", "2", "3", "4", "5", "6", "7", "8", "9">>
DigitChars == {Digit[i] : i \in 1..10}
DigitVal(c) == (CHOOSE i \in 1..10 : Digit[i] = c) - 1

RECURSIVE LStrip(_)
LStrip(s) == IF s # <<>> /\ Head(s) = " " THEN LStrip(Tail(s)) ELSE s

RECURSIVE RStrip(_)
RStrip(s) ==
    IF s # <<>> /\ s[Len(s)] = " " THEN RStrip(SubSeq(s, 1, Len(s) - 1)) ELSE s

\* str.strip()
Strip(s) == RStrip(LStrip(s))

\* The scanner behind float(str) and pandas.to_numeric on the characters the
\* model uses: an optional sign, digits with at most one point, at least one
\* digit.  st.ph is the scanner's phase; "bad" is the ValueError.
ScanStart == [ph |-> "sign", neg |-> FALSE, n |-> 0, d |-> 1, digits |-> FALSE]

ScanChar(st, c) ==
    IF st.ph = "bad" THEN st
    ELSE IF c \in {"+", "-"}
         THEN IF st.ph = "sign" THEN [st EXCEPT !.ph = "int", !.neg = (c = "-")]
              ELSE [st EXCEPT !.ph = "bad"]
    ELSE IF c \in DigitChars
         THEN [st EXCEPT !.ph = IF st.ph = "frac" THEN "frac" ELSE "int",
                         !.n = 10 * st.n + DigitVal(c),
                         !.d = IF st.ph = "frac" THEN 10 * st.d ELSE st.d,
                         !.digits = TRUE]
    ELSE IF c = "."
         THEN IF st.ph = "frac" THEN [st EXCEPT !.ph = "bad"]
              ELSE [st EXCEPT !.ph = "frac"]
    ELSE [st EXCEPT !.ph = "bad"]

RECURSIVE Scan(_, _)
Scan(st, s) == IF s = <<>> THEN st ELSE Scan(ScanChar(st, Head(s)), Tail(s))

\* float(s): [ok |-> FALSE] stands for the ValueError.
float(s) ==
    LET st == Scan(ScanStart, Strip(s))
    IN  IF st.ph # "bad" /\ st.digits
        THEN [ok |-> TRUE, val |-> Num(IF st.neg THEN -st.n ELSE st.n, st.d)]
        ELSE [ok |-> FALSE, val |-> NaN]

\* pd.to_numeric(cell, errors='coerce'): a cell that does not parse is NaN.
to_numeric(cell) == LET r == float(cell) IN IF r.ok THEN r.val ELSE NaN

(***************************************************************************)
(* CSV files.  A file is a sequence of rows, a row a sequence of cells, a  *)
(* cell a text.  The files the model loads are built column by column from *)
(* a small family of column shapes: a constant numeric column, a rising    *)
(* numeric column, a column of text, and a rising numeric column whose     *)
(* first or last cell is text.                                             *)
(***************************************************************************)
XCell == <<"x">>
NumCell(v) == <<Digit[v + 1]>>

Shapes(R, V) ==
    {[kind |-> "const", v |-> v, at |-> 0] : v \in 1..V}
    \cup {[kind |-> "ramp", v |-> 1, at |-> 0]}
    \cup {[kind |-> "text", v |-> 0, at |-> 0]}
    \cup {[kind |-> "hole", v |-> 1, at |-> a] : a \in {1, R}}

ShapeCell(s, i) ==
    CASE s.kind = "const" -> NumCell(s.v)
      [] s.kind = "ramp" -> NumCell(s.v + i - 1)
      [] s.kind = "text" -> XCell
      [] s.kind = "hole" -> IF i = s.at THEN XCell ELSE NumCell(s.v + i - 1)

FileOf(f, K, R) == [i \in 1..R |-> [j \in 1..K |-> ShapeCell(f[j], i)]]

EmptyFile == <<>>

\* The files of K columns (K in Ks) and R rows (R in Rs) whose column shapes
\* are of the given kinds with constants up to V, and the empty file.
CsvFiles(Ks, Rs, kinds, V) ==
    {EmptyFile} \cup
    UNION {UNION {{FileOf(f, K, R) :
                     f \in [1..K -> {s \in Shapes(R, V) : s.kind \in kinds}]}
                  : K \in Ks} : R \in Rs}

AllKinds == {"const", "ramp", "text", "hole"}
YesNo == {"yes", "no"}

(***************************************************************************)
(* pandas.read_csv and the data frame.  A data frame is a record           *)
(* [index, names, cols]: cols is column-major, names[j] labels cols[j];    *)
(* index is [named |-> FALSE] for the default RangeIndex, or the cells of  *)
(* the column read_csv took as the index (index_col=0).                    *)
(***************************************************************************)
None == [none |-> TRUE]
RangeIndex == [named |-> FALSE, cells |-> <<>>]

Column(rows, j) == [i \in 1..Len(rows) |-> rows[i][j]]
Width(rows) == IF rows = <<>> THEN 0 ELSE Len(rows[1])

\* read_csv's header labels: a repeated label gets its repeat count.
HeaderName(hdr, j) ==
    [kind |-> "header", text |-> hdr[j],
     i |-> Cardinality({q \in 1..(j - 1) : hdr[q] = hdr[j]})]
GroupName(i) == [kind |-> "Group", text |-> <<>>, i |-> i]

\* pd.read_csv(file_path, header=0 | None, index_col=0 | None) on a file
\* that has at least one row.
read_csv(file, header0, index0) ==
    LET data == IF header0 THEN Tail(file) ELSE file
        K == Width(file)
        first == IF index0 THEN 2 ELSE 1
        label(j) == IF header0 THEN HeaderName(file[1], j)
                    ELSE [kind |-> "position", text |-> <<>>, i |-> j - 1]
    IN  [index |-> IF index0 THEN [named |-> TRUE, cells |-> Column(data, 1)]
                   ELSE RangeIndex,
         names |-> [j \in 1..(K - first + 1) |-> label(j + first - 1)],
         cols |-> [j \in 1..(K - first + 1) |-> Column(data, j + first - 1)]]

\* DataFrame.reset_index(inplace=True): the index becomes the first column.
reset_index(d) ==
    [index |-> RangeIndex,
     names |-> <<[kind |-> "position", text |-> <<>>, i |-> 0]>> \o d.names,
     cols |-> <<d.index.cells>> \o d.cols]

\* df.columns = [f"Group{i}" for i in range(count)]
set_columns(d, count) == [d EXCEPT !.names = [j \in 1..count |-> GroupName(j - 1)]]

\* load_csv, lines 110-124: the data frame the four branches build.
load_frame(file, has_header, has_index) ==
    IF has_index = "yes"
    THEN IF has_header = "yes"
         THEN read_csv(file, TRUE, TRUE)
         ELSE LET d0 == read_csv(file, FALSE, TRUE)
                  col_count == Len(d0.cols)
              IN  set_columns(reset_index(d0), col_count + 1)
    ELSE IF has_header = "yes"
         THEN read_csv(file, TRUE, FALSE)
         ELSE LET d0 == read_csv(file, FALSE, FALSE)
                  col_count == Len(d0.cols)
              IN  set_columns(d0, col_count)

(***************************************************************************)
(* perform_anova: cleaning the columns (lines 175-190).                    *)
(***************************************************************************)
\* self.df.apply(pd.to_numeric, errors='coerce'): every cell, column by column.
apply_to_numeric(d) ==
    [names |-> d.names,
     cols |-> [j \in 1..Len(d.cols) |->
                 [i \in 1..Len(d.cols[j]) |-> to_numeric(d.cols[j][i])]]]

\* Series.dropna() on one column: the numeric cells, in their order.
dropna(col) == LET Kept(x) == ~IsNaN(x) IN SelectSeq(col, Kept)

\* The least number of numeric columns (line 178) and of groups (line 189).
MinColumns == 2
MinGroups == 2

\* Line 176 without its notna().any() filter: every column counts.
valid_cols_unfiltered(numeric_only) == [j \in 1..Len(numeric_only.cols) |-> j]

\* valid_cols, line 176: the positions of the columns with a numeric cell.
valid_cols(numeric_only) ==
    LET Valid(j) == dropna(numeric_only.cols[j]) # <<>>
    IN  SelectSeq([j \in 1..Len(numeric_only.cols) |-> j], Valid)

\* Lines 181-187 with the rows cleaned together, as DataFrame.dropna() over
\* the valid columns would: a row is kept when every valid column has a
\* number in it.
group_list_by_rows(numeric_only) ==
    LET pos == valid_cols(numeric_only)
        rows == IF Len(pos) = 0 THEN 0 ELSE Len(numeric_only.cols[pos[1]])
        Full(i) == \A g \in 1..Len(pos) : ~IsNaN(numeric_only.cols[pos[g]][i])
        kept == SelectSeq([i \in 1..rows |-> i], Full)
    IN  [g \in 1..Len(pos) |-> [k \in 1..Len(kept) |-> numeric_only.cols[pos[g]][kept[k]]]]

\* group_list and group_names, lines 181-187.
group_positions(numeric_only) ==
    LET NonEmpty(j) == Len(dropna(numeric_only.cols[j])) > 0
    IN  SelectSeq(valid_cols(numeric_only), NonEmpty)

group_list_of(numeric_only) ==
    LET pos == group_positions(numeric_only)
    IN  [g \in 1..Len(pos) |-> dropna(numeric_only.cols[pos[g]])]

group_names_of(numeric_only) ==
    LET pos == group_positions(numeric_only)
    IN  [g \in 1..Len(pos) |-> numeric_only.names[pos[g]]]

ErrorColumns == "At least two columns must contain numeric data."
ErrorGroups == "At least two groups are required for ANOVA."

\* group_info_data, lines 192-203.
group_info(names, groups) ==
    [Group |-> names,
     Size |-> [g \in 1..Len(groups) |-> Len(groups[g])],
     Sum |-> [g \in 1..Len(groups) |-> FSum(groups[g])],
     Mean |-> [g \in 1..Len(groups) |->
                 FDiv(FSum(groups[g]), Int2F(Len(groups[g])))]]

(***************************************************************************)
(* perform_anova: the significance level (lines 169-173).                  *)
(***************************************************************************)
\* Another default than the 0.05 of lines 171 and 173.
DefaultAlphaTenth == Num(1, 10)
DefaultAlpha == Num(5, 100)

parse_alpha(text) ==
    LET alpha_str == Strip(text)
        r == float(alpha_str)
    IN  IF r.ok THEN r.val ELSE DefaultAlpha

(***************************************************************************)
(* perform_anova: the ANOVA table (lines 205-246).                         *)
(***************************************************************************)
Squares(g) == [i \in 1..Len(g) |-> FMul(g[i], g[i])]

\* The p-values scipy may return for a sample whose F statistic is finite.
PValues == {Num(1, 100), Num(5, 100)}

IsConstant(g) == \A i \in 1..Len(g) : g[i] = g[1]

\* stats.f_oneway(*group_list)[1]: the p-values the call can return.  With
\* every group of length 1, or every value the same, scipy returns nan; with
\* every group constant and two groups differing, 0.0 (F is infinite).
f_oneway_p(groups) ==
    IF \A g \in 1..Len(groups) : Len(groups[g]) = 1 THEN {NaN}
    ELSE IF \A g \in 1..Len(groups) : IsConstant(groups[g])
         THEN IF \A g \in 1..Len(groups) : groups[g][1] = groups[1][1]
              THEN {NaN} ELSE {Int2F(0)}
    ELSE PValues

\* (4) SSE = SST - SSTR, line 226.
\* Line 226 with the operands the other way round.
error_ss_reversed(SST, SSTR) == FSub(SSTR, SST)
error_ss(SST, SSTR) == FSub(SST, SSTR)

\* Line 245 with <= for <.
reject_h0_inclusive(p_value, alpha) ==
    IF FLt(p_value, alpha) \/ (IsNum(p_value) /\ p_value = alpha) THEN "Yes" ELSE "No"

\* "Yes" if p_value < alpha else "No", line 245.
reject_h0(p_value, alpha) == IF FLt(p_value, alpha) THEN "Yes" ELSE "No"

anova_table(groups, alpha, p_value) ==
    LET group_sums == [g \in 1..Len(groups) |-> FSum(groups[g])]
        group_sq_sums == [g \in 1..Len(groups) |-> FSum(Squares(groups[g]))]
        group_sizes == [g \in 1..Len(groups) |-> Len(groups[g])]
        p == Len(groups)
        n == FSum([g \in 1..p |-> Int2F(group_sizes[g])]).n
        total_sum == FSum(group_sums)
        C == FDiv(FMul(total_sum, total_sum), Int2F(n))
        total_sq_sum == FSum(group_sq_sums)
        SST == FSub(total_sq_sum, C)
        SSTR == FSub(FSum([g \in 1..p |->
                        FDiv(FMul(group_sums[g], group_sums[g]),
                             Int2F(group_sizes[g]))]), C)
        SSE == error_ss(SST, SSTR)
        df_treat == p - 1
        df_error == n - p
        df_total == n - 1
        MSTR == FDiv(SSTR, Int2F(df_treat))
        MSE == FDiv(SSE, Int2F(df_error))
        F_calculated == FDiv(MSTR, MSE)
    IN  [df_treat |-> df_treat, df_error |-> df_error, df_total |-> df_total,
         SSTR |-> SSTR, SSE |-> SSE, SST |-> SST,
         MSTR |-> MSTR, MSE |-> MSE,
         F |-> F_calculated, p_value |-> p_value, alpha |-> alpha,
         reject |-> reject_h0(p_value, alpha)]

(***************************************************************************)
(* The state of the ANOVA application.                                     *)
(*                                                                         *)
(* A widget the user edits (the two radio buttons, the alpha entry) is     *)
(* read by one handler only; the model lets the user set it in the step    *)
(* that reads it, and the variable holds the value read.  The step label   *)
(* animation (show_steps) and the CSV tree view are projections no handler *)
(* reads back and are left out.                                            *)
(***************************************************************************)
VARIABLES
    file,            \* the CSV file the last load_csv opened
    header_var,      \* "yes" | "no"
    index_var,       \* "yes" | "no"
    alpha_entry,     \* the text of the alpha entry
    df,              \* self.df: None or a data frame
    group_info_df,   \* self.group_info_df: None or the group summary table
    anova_result,    \* self.anova_result: None or the ANOVA table
    save_button,     \* "disabled" | "normal"
    progress,        \* the progress bar: "stopped" | "running"
    output_frame,    \* the two tables the output frame shows
    messagebox,      \* the last dialog shown: [kind, text]
    loads,           \* load_csv events so far
    threads,         \* the perform_anova threads started, in start order
    excel_file       \* None or the sheets the last save_to_excel wrote

appVars == <<file, header_var, index_var, alpha_entry, df, group_info_df,
             anova_result, save_button, progress, output_frame, messagebox,
             loads, threads, excel_file>>

\* The state of the data generator (src/Data_Generator.py), a program of
\* its own: no handler of one program touches the state of the other.
VARIABLES
    day_var,           \* the Day drop-down, a two-digit text
    month_var,         \* the Month drop-down
    year_var,          \* the Year drop-down
    replications_var,  \* IntVar
    tol_mean_var,      \* DoubleVar
    tol_std_var,       \* DoubleVar
    decimals_var,      \* IntVar
    normal_calls,      \* calls of np.random.normal so far
    csv_written,       \* calls of DataFrame.to_csv so far
    last_csv,          \* None or the table the last to_csv wrote
    gen_messagebox,    \* the last dialog the generator showed
    generations        \* clicks on Generate Data so far

genVars == <<day_var, month_var, year_var, replications_var, tol_mean_var,
             tol_std_var, decimals_var, normal_calls, csv_written, last_csv,
             gen_messagebox, generations>>

NoDialog == [kind |-> "none", text |-> ""]
NoOutput == [info |-> None, result |-> None]

\* A thread of perform_anova: its position and its local variables.
\*   pc: "sleep" (started, line 168), "computing" (group_info_df stored, line
\*   203), "display" (anova_result stored, line 248), "done", "error".
\*   started_on is no variable of the program: it keeps the table that was
\*   loaded when run_anova started the thread, to tell it from the table the
\*   thread reads at line 175.
NewThread ==
    [pc |-> "sleep", alpha_text |-> <<>>, alpha |-> NaN, numeric_only |-> None,
     group_names |-> <<>>, group_list |-> <<>>, result |-> None, error |-> "",
     started_on |-> None]

\* AnovaApp.__init__, lines 46-92.
\* __init__ with the Save button left in its default state (line 86 without
\* state=tk.DISABLED).
AppInitSaveEnabled ==
    /\ file = EmptyFile
    /\ header_var = "yes"
    /\ index_var = "no"
    /\ alpha_entry = <<"0", ".", "0", "5">>
    /\ df = None
    /\ group_info_df = None
    /\ anova_result = None
    /\ save_button = "normal"
    /\ progress = "stopped"
    /\ output_frame = NoOutput
    /\ messagebox = NoDialog
    /\ loads = 0
    /\ threads = <<>>
    /\ excel_file = None

AppInit ==
    /\ file = EmptyFile
    /\ header_var = "yes"
    /\ index_var = "no"
    /\ alpha_entry = <<"0", ".", "0", "5">>
    /\ df = None
    /\ group_info_df = None
    /\ anova_result = None
    /\ save_button = "disabled"
    /\ progress = "stopped"
    /\ output_frame = NoOutput
    /\ messagebox = NoDialog
    /\ loads = 0
    /\ threads = <<>>
    /\ excel_file = None

\* load_csv, lines 102-146: the user picks a file and the two options.
load_csv(files, headers, indexes, maxLoads) ==
    /\ loads < maxLoads
    /\ \E f \in files, h \in headers, ix \in indexes :
        /\ file' = f
        /\ header_var' = h
        /\ index_var' = ix
        /\ IF f = EmptyFile
           THEN \* read_csv raises EmptyDataError, lines 125-127
                /\ messagebox' = [kind |-> "error", text |-> "Unable to read CSV"]
                /\ df' = df
           ELSE /\ df' = load_frame(f, h, ix)
                /\ messagebox' = messagebox
    /\ loads' = loads + 1
    /\ UNCHANGED <<alpha_entry, group_info_df, anova_result, save_button,
                   progress, output_frame, threads>>
    /\ UNCHANGED excel_file

\* run_anova, lines 154-164.
run_anova(maxRuns) ==
    /\ Len(threads) < maxRuns
    /\ IF df = None
       THEN /\ messagebox' = [kind |-> "warning", text |-> "No CSV loaded."]
            /\ UNCHANGED <<progress, threads>>
       ELSE /\ progress' = "running"
            /\ threads' = Append(threads, [NewThread EXCEPT !.started_on = df])
            /\ messagebox' = messagebox
    /\ UNCHANGED <<file, header_var, index_var, alpha_entry, df, group_info_df,
                   anova_result, save_button, output_frame, loads>>
    /\ UNCHANGED excel_file

\* The except clause of perform_anova, lines 252-254.
perform_anova_except(i, t, message) ==
    /\ progress' = "stopped"
    /\ messagebox' = [kind |-> "error", text |-> message]
    /\ threads' = [threads EXCEPT ![i] = [t EXCEPT !.pc = "error", !.error = message]]

\* perform_anova, lines 168-203: the alpha, the cleaning, the validation and
\* the group summary.
perform_anova_validate(i, texts) ==
    /\ threads[i].pc = "sleep"
    /\ \E text \in texts :
        LET alpha == parse_alpha(text)
            numeric_only == apply_to_numeric(df)
            t == [threads[i] EXCEPT !.alpha_text = text, !.alpha = alpha,
                                    !.numeric_only = numeric_only]
        IN  /\ alpha_entry' = text
            /\ IF Len(valid_cols(numeric_only)) < MinColumns
               THEN /\ perform_anova_except(i, t, ErrorColumns)
                    /\ group_info_df' = group_info_df
               ELSE LET group_list == group_list_of(numeric_only)
                        group_names == group_names_of(numeric_only)
                    IN  IF Len(group_list) < MinGroups
                        THEN /\ perform_anova_except(i, t, ErrorGroups)
                             /\ group_info_df' = group_info_df
                        ELSE /\ group_info_df' = group_info(group_names, group_list)
                             /\ threads' = [threads EXCEPT ![i] =
                                   [t EXCEPT !.pc = "computing",
                                             !.group_names = group_names,
                                             !.group_list = group_list]]
                             /\ UNCHANGED <<progress, messagebox>>
    /\ UNCHANGED <<file, header_var, index_var, df, anova_result, save_button,
                   output_frame, loads>>
    /\ UNCHANGED excel_file

\* perform_anova, lines 205-248: the ANOVA table, stored in self.anova_result.
perform_anova_compute(i) ==
    /\ threads[i].pc = "computing"
    /\ \E p_value \in f_oneway_p(threads[i].group_list) :
        LET result == anova_table(threads[i].group_list, threads[i].alpha, p_value)
        IN  /\ anova_result' = result
            /\ threads' = [threads EXCEPT ![i] =
                  [threads[i] EXCEPT !.pc = "display", !.result = result]]
    /\ UNCHANGED <<file, header_var, index_var, alpha_entry, df, group_info_df,
                   save_button, progress, output_frame, messagebox, loads>>
    /\ UNCHANGED excel_file

\* perform_anova, lines 249-251: progress.stop(), display_extracted_info()
\* and display_results(), which enables Save (line 287).
perform_anova_display(i) ==
    /\ threads[i].pc = "display"
    /\ progress' = "stopped"
    /\ output_frame' = [info |-> group_info_df, result |-> anova_result]
    /\ save_button' = "normal"
    /\ threads' = [threads EXCEPT ![i] = [threads[i] EXCEPT !.pc = "done"]]
    /\ UNCHANGED <<file, header_var, index_var, alpha_entry, df, group_info_df,
                   anova_result, messagebox, loads>>
    /\ UNCHANGED excel_file

\* save_to_excel, lines 289-322.  The button invokes it only while enabled.
\* An empty file_path (the dialog cancelled) writes nothing.  With
\* anova_result None, line 299 raises AttributeError out of the handler and
\* the workbook closes without the ANOVA sheet.
save_to_excel ==
    /\ save_button = "normal"
    /\ \E chosen \in BOOLEAN :
        IF ~chosen
        THEN UNCHANGED <<excel_file, messagebox>>
        ELSE IF anova_result = None
        THEN /\ excel_file' = [info |-> group_info_df, result |-> None]
             /\ messagebox' = messagebox
        ELSE /\ excel_file' = [info |-> group_info_df, result |-> anova_result]
             /\ messagebox' = [kind |-> "info", text |-> "ANOVA results saved successfully!"]
    /\ UNCHANGED <<file, header_var, index_var, alpha_entry, df, group_info_df,
                   anova_result, save_button, progress, output_frame, loads, threads>>

AppNext(files, headers, indexes, texts, maxLoads, maxRuns) ==
    \/ load_csv(files, headers, indexes, maxLoads) /\ UNCHANGED genVars
    \/ run_anova(maxRuns) /\ UNCHANGED genVars
    \/ \E i \in DOMAIN threads : perform_anova_validate(i, texts) /\ UNCHANGED genVars
    \/ \E i \in DOMAIN threads : perform_anova_compute(i) /\ UNCHANGED genVars
    \/ \E i \in DOMAIN threads : perform_anova_display(i) /\ UNCHANGED genVars

(***************************************************************************)
(* The data generator (src/Data_Generator.py).                             *)
(*                                                                         *)
(* The random source.  np.random.normal may return any reals; the model    *)
(* draws two kinds of sample.  A "near" sample has the mean asked for and  *)
(* a standard deviation close to the one asked for: loc + c*scale and      *)
(* loc - c*scale in turn, and loc itself as the last of an odd number of   *)
(* draws.  A "far" sample rises loc+1, loc+2, ...  In a table no           *)
(* treatment, the first or the last draws a far sample.  With scale 0      *)
(* every draw is loc.  A negative size raises ValueError.                  *)
(*                                                                         *)
(* The rescaled values hold a square root and are not computed: a column   *)
(* of the table keeps the sample drawn, whether the rescale was applied    *)
(* and the number of decimals it was rounded to.  The tolerance test on    *)
(* the standard deviation is decided exactly, on the variance.             *)
(***************************************************************************)
TwoDigits(v) == <<Digit[(v \div 10) + 1], Digit[(v % 10) + 1]>>

\* DataGeneratorGUI.create_widgets, lines 83-161: the defaults.
GenInit ==
    /\ day_var = TwoDigits(10)
    /\ month_var = TwoDigits(3)
    /\ year_var = TwoDigits(24)
    /\ replications_var = 25
    /\ tol_mean_var = Num(5, 100)
    /\ tol_std_var = Num(5, 100)
    /\ decimals_var = 2
    /\ normal_calls = 0
    /\ csv_written = 0
    /\ last_csv = None
    /\ gen_messagebox = NoDialog
    /\ generations = 0

\* The least number of treatments, line 40.
MinTreatments == 4

\* Line 40 without its floor: the second argument alone.
Second(a, b) == b

Max(a, b) == IF a >= b THEN a ELSE b

\* ANOVADataGenerator.__init__ with the division of line 42 done as numpy
\* divides: no exception, the quotient is nan or inf.
generator_init_numpy(d1, d2, m1, m2, y1, y2, replications, tol_mean, tol_std, num_decimals) ==
    [ok |-> TRUE, error |-> "",
     num_treatments |-> Max(MinTreatments, d1 + d2),
     target_std |-> FDiv(Int2F(m2 * d2), Int2F(y2)),
     m2 |-> m2, d2 |-> d2, y2 |-> y2, replications |-> replications,
     tol_mean |-> tol_mean, tol_std |-> tol_std, num_decimals |-> num_decimals]

\* ANOVADataGenerator.__init__, lines 28-42.  ok = FALSE is the
\* ZeroDivisionError of line 42.
generator_init(d1, d2, m1, m2, y1, y2, replications, tol_mean, tol_std, num_decimals) ==
    IF y2 = 0
    THEN [ok |-> FALSE, error |-> "division by zero",
          num_treatments |-> Max(MinTreatments, d1 + d2), target_std |-> NaN,
          m2 |-> m2, d2 |-> d2, y2 |-> y2, replications |-> replications,
          tol_mean |-> tol_mean, tol_std |-> tol_std, num_decimals |-> num_decimals]
    ELSE [ok |-> TRUE, error |-> "",
          num_treatments |-> Max(MinTreatments, d1 + d2),
          target_std |-> Num(m2 * d2, y2),
          m2 |-> m2, d2 |-> d2, y2 |-> y2, replications |-> replications,
          tol_mean |-> tol_mean, tol_std |-> tol_std, num_decimals |-> num_decimals]

\* np.random.normal(loc, scale, size) for size >= 0.
normal(loc, scale, size, far) ==
    LET c == IF size % 2 = 0 THEN Num(7, 10) ELSE Num(1, 1)
        step == FMul(c, scale)
    IN  [k \in 1..size |->
            IF scale.n = 0 THEN loc
            ELSE IF far THEN FAdd(loc, Int2F(k))
            ELSE IF size % 2 = 1 /\ k = size THEN loc
            ELSE IF k % 2 = 1 THEN FAdd(loc, step)
            ELSE FSub(loc, step)]

\* np.mean and the square of np.std(ddof=1).
mean(obs) == FDiv(FSum(obs), Int2F(Len(obs)))
var_ddof1(obs) ==
    LET m == mean(obs)
        dev == [k \in 1..Len(obs) |-> FMul(FSub(obs[k], m), FSub(obs[k], m))]
    IN  FDiv(FSum(dev), Int2F(Len(obs) - 1))

\* abs(sqrt(variance) - target) > tol, for target >= 0.
std_off(variance, target, tol) ==
    IF IsNaN(variance) THEN FALSE
    ELSE LET hi == FAdd(target, tol)
             lo == FSub(target, tol)
         IN  \/ FLt(hi, Int2F(0))
             \/ FGt(variance, FMul(hi, hi))
             \/ (FGt(lo, Int2F(0)) /\ FLt(variance, FMul(lo, lo)))

\* The test of line 52.
needs_rescale(obs, target_mean, target_std, tol_mean, tol_std) ==
    \/ FGt(FAbs(FSub(mean(obs), target_mean)), tol_mean)
    \/ std_off(var_ddof1(obs), target_std, tol_std)

\* generate_observations with a retry: a sample outside the tolerances is
\* drawn again before it is rescaled.
generate_observations_retry(g, target_mean, target_std, drawn) ==
    LET off == needs_rescale(drawn, target_mean, target_std, g.tol_mean, g.tol_std)
    IN  [drawn |-> drawn,
         rescaled |-> off,
         num_decimals |-> g.num_decimals,
         steps |-> IF off THEN <<"normal", "normal", "rescale", "round">>
                   ELSE <<"normal", "round">>]

\* generate_observations, lines 49-55, after the draw.  steps lists the
\* array operations in the order the function makes them: np.random.normal
\* (line 49), the rescale (line 53) when the test of line 52 holds, np.round
\* (line 54).
generate_observations(g, target_mean, target_std, drawn) ==
    LET off == needs_rescale(drawn, target_mean, target_std, g.tol_mean, g.tol_std)
    IN  [drawn |-> drawn,
         rescaled |-> off,
         num_decimals |-> g.num_decimals,
         steps |-> <<"normal">> \o (IF off THEN <<"rescale">> ELSE <<>>) \o <<"round">>]

TreatmentName(i) == [prefix |-> "Treatment_", i |-> i]

\* generate_data, lines 62-67, for replications >= 0.
generate_data(g, far) ==
    [names |-> [i \in 1..g.num_treatments |-> TreatmentName(i)],
     cols |-> [i \in 1..g.num_treatments |->
                 LET target_mean == Int2F(g.m2 * g.d2 + i * g.y2)
                 IN  generate_observations(g, target_mean, g.target_std,
                         normal(target_mean, g.target_std, g.replications, far = i))]]

\* The calls of np.random.normal that produced a table.
Count(steps, op) == Cardinality({k \in 1..Len(steps) : steps[k] = op})
RECURSIVE draws_upto(_, _)
draws_upto(table, i) ==
    IF i = 0 THEN 0
    ELSE draws_upto(table, i - 1) + Count(table.cols[i].steps, "normal")
draws_of(table) == draws_upto(table, Len(table.cols))

\* The settings of the two tolerance sliders: both at the default, or both
\* at the slider's upper end.
Tolerances == {[tol_mean |-> Num(5, 100), tol_std |-> Num(5, 100)],
               [tol_mean |-> Num(1, 1), tol_std |-> Num(1, 1)]}

\* The years chosen on the Year drop-down: "00", whose second digit is 0,
\* and the largest one.
Years == {0, MaxYear}

\* DataGeneratorGUI.generate_data, lines 169-200: the user sets the widgets
\* and clicks Generate Data.
generate_data_click ==
    /\ generations < MaxGenerations
    /\ generations' = generations + 1
    /\ \E day \in 1..MaxDay, year \in Years,
          replications \in -1..MaxReplications,
          tol \in Tolerances :
        LET day_str == TwoDigits(day)
            tol_mean == tol.tol_mean
            tol_std == tol.tol_std
            month_str == month_var
            year_str == TwoDigits(year)
            g == generator_init(DigitVal(day_str[1]), DigitVal(day_str[2]),
                                DigitVal(month_str[1]), DigitVal(month_str[2]),
                                DigitVal(year_str[1]), DigitVal(year_str[2]),
                                replications, tol_mean, tol_std, decimals_var)
        IN  /\ day_var' = day_str
            /\ year_var' = year_str
            /\ replications_var' = replications
            /\ tol_mean_var' = tol_mean
            /\ tol_std_var' = tol_std
            /\ IF ~g.ok
               THEN \* the constructor raised, line 189
                    /\ gen_messagebox' =
                          [kind |-> "error", text |-> "An error occurred: " \o g.error]
                    /\ UNCHANGED <<normal_calls, csv_written, last_csv>>
               ELSE IF replications < 0
               THEN \* the first np.random.normal raises, line 49
                    /\ normal_calls' = normal_calls + 1
                    /\ gen_messagebox' =
                          [kind |-> "error",
                           text |-> "An error occurred: negative dimensions are not allowed"]
                    /\ UNCHANGED <<csv_written, last_csv>>
               ELSE \E far \in {0, 1, g.num_treatments} :
                    LET table == generate_data(g, far)
                    IN  /\ normal_calls' = normal_calls + draws_of(table)
                        /\ last_csv' = table
                    /\ csv_written' = csv_written + 1
                    /\ gen_messagebox' = [kind |-> "info", text |-> "Success"]
    /\ UNCHANGED <<month_var, decimals_var>>
    /\ UNCHANGED appVars

GenNext == generate_data_click

(***************************************************************************)
(* Inputs and specifications of the ANOVA application.                     *)
(***************************************************************************)
Text005 == <<"0", ".", "0", "5">>

\* Spec: the application with its history and its concurrent runs, on files
\* of two columns and two rows.
AppFiles == CsvFiles({2}, {2}, {"ramp", "text"}, 1)
AppTexts == {Text005}

vars == <<appVars, genVars>>
Init == AppInit /\ GenInit
Next ==
    \/ AppNext(AppFiles, {"no"}, {"no"}, AppTexts, MaxLoads, MaxRuns)
    \/ save_to_excel /\ UNCHANGED genVars
Spec == Init /\ [][Next]_vars

\* SpecCalc: one load and one run over every file of the model.
CalcFiles == CsvFiles(1..MaxCols, 1..MaxRows, AllKinds, MaxVal)
CalcTexts == {Text005}
NextCalc == AppNext(CalcFiles, YesNo, YesNo, CalcTexts, 1, 1)
SpecCalc == Init /\ [][NextCalc]_vars

\* SpecAlpha: one load and one run over every alpha text of the model.
AlphaChars == {"0", "1", "5", ".", "-", " ", "a"}
AlphaTexts == UNION {[1..l -> AlphaChars] : l \in 0..MaxAlphaLen}
AlphaFiles == CsvFiles({2}, {2}, {"const", "ramp", "text"}, 1)
NextAlpha == AppNext(AlphaFiles, {"no"}, {"no"}, AlphaTexts, 1, 1)
SpecAlpha == Init /\ [][NextAlpha]_vars

\* SpecRace: loads and runs over files that all pass the validation and all
\* give different tables, so that the run a stored table came from shows.
RaceFiles == CsvFiles({2}, {2}, {"const", "ramp"}, 1)
NextRace ==
    \/ AppNext(RaceFiles, {"no"}, {"no"}, AppTexts, MaxLoads, MaxRuns)
    \/ save_to_excel /\ UNCHANGED genVars
SpecRace == Init /\ [][NextRace]_vars

\* SpecGen: the data generator.
NextGen == GenNext
SpecGen == Init /\ [][NextGen]_vars

(***************************************************************************)
(* Vocabulary of the properties.                                           *)
(***************************************************************************)
RECURSIVE Concat(_)
Concat(ss) == IF ss = <<>> THEN <<>> ELSE Head(ss) \o Concat(Tail(ss))

\* A thread that stored an ANOVA table.
HasResult(t) == t.pc \in {"display", "done"}
\* A thread that passed the validation and built its groups.
HasGroups(t) == t.pc \in {"computing", "display", "done"}

Observations(t) == Len(Concat(t.group_list))

\* The numeric columns of a cleaned table, by position.
NumericColumns(numeric_only) ==
    {j \in 1..Len(numeric_only.cols) :
        \E i \in 1..Len(numeric_only.cols[j]) : ~IsNaN(numeric_only.cols[j][i])}

(***************************************************************************)
(* C1.  In every ANOVA table produced, the total sum of squares of the     *)
(* pooled observations, sum(x^2) - (sum x)^2 / n, equals the treatment sum *)
(* of squares, sum over the groups of (group sum)^2 / (group size) minus   *)
(* the same correction, plus the error sum of squares of the table.        *)
(***************************************************************************)
PooledTotalSS(groups) ==
    LET pooled == Concat(groups)
        sumx == FSum(pooled)
    IN  FSub(FSum(Squares(pooled)), FDiv(FMul(sumx, sumx), Int2F(Len(pooled))))

TreatmentSS(groups) ==
    LET pooled == Concat(groups)
        sumx == FSum(pooled)
        term(g) == FDiv(FMul(FSum(groups[g]), FSum(groups[g])), Int2F(Len(groups[g])))
    IN  FSub(FSum([g \in 1..Len(groups) |-> term(g)]),
             FDiv(FMul(sumx, sumx), Int2F(Len(pooled))))

C1_SumOfSquaresDecomposition ==
    \A i \in DOMAIN threads :
        HasResult(threads[i]) =>
            PooledTotalSS(threads[i].group_list)
                = FAdd(TreatmentSS(threads[i].group_list), threads[i].result.SSE)

\* A table of groups of different sizes with both sums of squares positive.
C1_Witness ==
    \E i \in DOMAIN threads :
        /\ HasResult(threads[i])
        /\ anova_result = threads[i].result
        /\ \E g, h \in 1..Len(threads[i].group_list) :
              Len(threads[i].group_list[g]) # Len(threads[i].group_list[h])
        /\ FGt(threads[i].result.SSE, Int2F(0))
        /\ FGt(threads[i].result.SSTR, Int2F(0))

(***************************************************************************)
(* C2.  Whenever the groups are equal-sized with equal means and zero      *)
(* within-group variance, perform_anova ends in an error and stores no     *)
(* ANOVA table, and no stored table has an infinite or nan F.  Stated for  *)
(* groups of at least two values, where the error degrees of freedom are   *)
(* positive and the error mean square is 0.                                *)
(***************************************************************************)
ZeroErrorVariance(groups) ==
    /\ \A g \in 1..Len(groups) : Len(groups[g]) = Len(groups[1])
    /\ \A g \in 1..Len(groups) : IsConstant(groups[g]) /\ groups[g][1] = groups[1][1]

C2_ZeroErrorVarianceFails ==
    \A i \in DOMAIN threads :
        (/\ HasGroups(threads[i])
         /\ ZeroErrorVariance(threads[i].group_list)
         /\ Len(threads[i].group_list[1]) >= 2)
        => (~HasResult(threads[i]) /\ threads[i].result = None)

(***************************************************************************)
(* C3.  Whenever the number of observations n is at most the number of     *)
(* groups p, perform_anova fails with an error and stores no ANOVA table.  *)
(***************************************************************************)
C3_NoErrorDegreesOfFreedomFails ==
    \A i \in DOMAIN threads :
        (HasGroups(threads[i]) /\ Observations(threads[i]) <= Len(threads[i].group_list))
            => (~HasResult(threads[i]) /\ threads[i].result = None)

(***************************************************************************)
(* C4.  If fewer than 2 columns of the loaded table hold a numeric value,  *)
(* the step of perform_anova that reads the table ends the run with the    *)
(* error "At least two columns must contain numeric data." and leaves the  *)
(* stored group summary, the stored ANOVA table and the state of the Save  *)
(* button as they were.                                                    *)
(***************************************************************************)
RECURSIVE IsDigits(_)
IsDigits(c) == c = <<>> \/ (Head(c) \in DigitChars /\ IsDigits(Tail(c)))

\* A cell of the model's files is numeric iff it is a run of digits.
IsNumericCell(c) == c # <<>> /\ IsDigits(c)

NumericColumnCount(d) ==
    Cardinality({j \in 1..Len(d.cols) :
                    \E i \in 1..Len(d.cols[j]) : IsNumericCell(d.cols[j][i])})

C4_TooFewColumnsLeavesState ==
    [][\A i \in DOMAIN threads :
          (/\ threads[i].pc = "sleep"
           /\ threads'[i].pc # "sleep"
           /\ NumericColumnCount(df) < 2)
          => (/\ threads'[i].pc = "error"
              /\ threads'[i].error = "At least two columns must contain numeric data."
              /\ messagebox'.kind = "error"
              /\ messagebox'.text = threads'[i].error
              /\ threads'[i].result = None
              /\ group_info_df' = group_info_df
              /\ anova_result' = anova_result
              /\ save_button' = save_button)]_vars

\* A run that failed the validation after an earlier run had stored its
\* tables and enabled Save.
C4_Witness ==
    \E i \in DOMAIN threads :
        /\ threads[i].pc = "error"
        /\ threads[i].error = ErrorColumns
        /\ NumericColumnCount(df) < 2
        /\ group_info_df # None
        /\ anova_result # None
        /\ save_button = "normal"

(***************************************************************************)
(* C5.  The significance level of a run is 0.05 when the alpha text is     *)
(* empty or is not a number, and is the number the text denotes when it is *)
(* one; a text that is not a number never makes the run fail.              *)
(***************************************************************************)
\* The text between its first and its last character that is not a space.
Core(text) ==
    LET inked == {q \in 1..Len(text) : text[q] # " "}
    IN  IF inked = {} THEN <<>>
        ELSE SubSeq(text, CHOOSE a \in inked : \A q \in inked : a <= q,
                          CHOOSE b \in inked : \A q \in inked : q <= b)

Unsigned(c) == IF c # <<>> /\ c[1] \in {"+", "-"} THEN Tail(c) ELSE c

\* A decimal numeral: digits and at most one point, at least one digit.
IsDecimal(u) ==
    /\ \A q \in 1..Len(u) : u[q] \in DigitChars \cup {"."}
    /\ Cardinality({q \in 1..Len(u) : u[q] = "."}) <= 1
    /\ \E q \in 1..Len(u) : u[q] \in DigitChars

\* The digit at position q of a numeral counts 10^(digits to its right).
DecimalValue(u) ==
    LET digits == {q \in 1..Len(u) : u[q] \in DigitChars}
        point == IF \E q \in 1..Len(u) : u[q] = "."
                 THEN CHOOSE q \in 1..Len(u) : u[q] = "." ELSE Len(u) + 1
        right(q) == Cardinality({r \in digits : r > q})
        weights == [q \in 1..Len(u) |->
                      IF q \in digits THEN DigitVal(u[q]) * Pow10(right(q)) ELSE 0]
        total == FSum([q \in 1..Len(u) |-> Int2F(weights[q])]).n
    IN  [n |-> total, d |-> Pow10(Cardinality({r \in digits : r > point}))]

IsNumberText(text) == IsDecimal(Unsigned(Core(text)))

C5_AlphaDefault ==
    \A i \in DOMAIN threads :
        LET t == threads[i]
        IN  t.pc # "sleep" =>
              /\ IsNum(t.alpha)
              /\ IF IsNumberText(t.alpha_text)
                 THEN LET v == DecimalValue(Unsigned(Core(t.alpha_text)))
                          s == IF Core(t.alpha_text)[1] = "-" THEN -1 ELSE 1
                      IN  t.alpha.n * v.d = s * v.n * t.alpha.d
                 ELSE t.alpha.n * 100 = 5 * t.alpha.d
              /\ (t.pc = "error" => Cardinality(NumericColumns(t.numeric_only)) < 2)
              /\ (HasResult(t) => t.result.alpha = t.alpha)

\* A run that read a text that is not a number and completed with 0.05, and
\* one that read a number other than 0.05 and completed with it.
C5_Witness ==
    \E i \in DOMAIN threads :
        /\ threads[i].pc = "done"
        /\ ~IsNumberText(threads[i].alpha_text)
        /\ threads[i].alpha_text # <<>>
        /\ threads[i].result.alpha = Num(1, 20)

C5_WitnessNumber ==
    \E i \in DOMAIN threads :
        /\ threads[i].pc = "done"
        /\ threads[i].alpha_text = <<" ", ".", "5">>
        /\ threads[i].result.alpha = Num(1, 2)

(***************************************************************************)
(* C6.  In every ANOVA table produced the decision is "Yes" if and only if *)
(* the p-value is strictly below the alpha of the run; a p-value equal to  *)
(* alpha gives "No".                                                       *)
(***************************************************************************)
C6_RejectIffBelowAlpha ==
    \A i \in DOMAIN threads :
        HasResult(threads[i]) =>
            LET r == threads[i].result
            IN  /\ r.reject \in {"Yes", "No"}
                /\ r.reject = "Yes" <=>
                      (/\ IsNum(r.p_value) /\ IsNum(r.alpha)
                       /\ r.p_value.n * r.alpha.d < r.alpha.n * r.p_value.d)
                /\ r.alpha = threads[i].alpha

\* A table whose p-value equals its alpha, decided "No".
C6_Witness ==
    \E i \in DOMAIN threads :
        /\ HasResult(threads[i])
        /\ threads[i].result.p_value = threads[i].result.alpha
        /\ threads[i].result.reject = "No"

C6_WitnessYes ==
    \E i \in DOMAIN threads :
        HasResult(threads[i]) /\ threads[i].result.reject = "Yes"

(***************************************************************************)
(* C7.  When has_index is set, the first column of the file is dropped     *)
(* whatever has_header is: the ingested table holds the file's other       *)
(* columns only, and a run on it builds no group from the first column.    *)
(* (Stated of the runs that build groups, under SpecCalc, where the table  *)
(* is loaded once.)                                                        *)
(***************************************************************************)
DataRows == IF header_var = "yes" THEN Tail(file) ELSE file

C7_IndexColumnDropped ==
    \A i \in DOMAIN threads :
        (index_var = "yes" /\ HasGroups(threads[i])) =>
            /\ Len(df.cols) = Width(file) - 1
            /\ \A j \in 1..Len(df.cols) : df.cols[j] = Column(DataRows, j + 1)
            /\ Len(threads[i].group_list) <= Width(file) - 1

(***************************************************************************)
(* C8.  Columns are cleaned independently.  A column with no numeric cell  *)
(* gives no group; a column with a numeric cell gives one group, named     *)
(* after it, holding exactly its numeric cells in their order, whatever    *)
(* the other columns hold in the same rows.  Groups follow column order.   *)
(* (Stated under SpecCalc, where the table is loaded once.)                *)
(***************************************************************************)
RECURSIVE DigitsValue(_)
DigitsValue(c) ==
    IF c = <<>> THEN 0 ELSE 10 * DigitsValue(SubSeq(c, 1, Len(c) - 1)) + DigitVal(c[Len(c)])

NumericRows(col) == {i \in 1..Len(col) : IsNumericCell(col[i])}
RankIn(rows, i) == Cardinality({q \in rows : q <= i})

C8_ColumnsCleanedIndependently ==
    \A i \in DOMAIN threads :
        HasGroups(threads[i]) =>
            LET t == threads[i]
                kept == {j \in 1..Len(df.cols) : NumericRows(df.cols[j]) # {}}
            IN  /\ Len(t.group_list) = Cardinality(kept)
                /\ Len(t.group_names) = Cardinality(kept)
                /\ \A j \in kept :
                      LET g == RankIn(kept, j)
                          rows == NumericRows(df.cols[j])
                      IN  /\ t.group_names[g] = df.names[j]
                          /\ Len(t.group_list[g]) = Cardinality(rows)
                          /\ \A r \in rows :
                                t.group_list[g][RankIn(rows, r)]
                                    = Int2F(DigitsValue(df.cols[j][r]))
                /\ group_info_df # None
                /\ (group_info_df.Group = t.group_names
                      => group_info_df.Size
                            = [g \in 1..Len(t.group_list) |-> Len(t.group_list[g])])

\* A run on a table with a column of text, a column with one text cell and
\* a whole numeric column: two groups of different sizes.
C8_Witness ==
    \E i \in DOMAIN threads :
        /\ threads[i].pc = "done"
        /\ Len(df.cols) = 3
        /\ Len(threads[i].group_list) = 2
        /\ \E j \in 1..3 : NumericRows(df.cols[j]) = {}
        /\ \E j \in 1..3 : NumericRows(df.cols[j]) # {}
                           /\ NumericRows(df.cols[j]) # 1..Len(df.cols[j])
        /\ Len(threads[i].group_list[1]) # Len(threads[i].group_list[2])

(***************************************************************************)
(* The data generator's claims, under SpecGen.                             *)
(***************************************************************************)
\* A click on Generate Data that reads the second year digit as d.
ClickWithYearDigit(d) ==
    /\ generations' = generations + 1
    /\ DigitVal(year_var'[2]) = d

\* No sample was drawn and no file was written by the step.
NothingGenerated ==
    /\ normal_calls' = normal_calls
    /\ csv_written' = csv_written
    /\ last_csv' = last_csv

\* C9: a click on Generate Data with a year whose second digit is 0 shows an
\* error dialog, makes no call of np.random.normal (generate_data makes at
\* least four) and no call of to_csv: the constructor raised.
C9_ZeroYearDigitFailsFast ==
    [][ClickWithYearDigit(0) =>
            /\ NothingGenerated
            /\ gen_messagebox'.kind = "error"
            /\ gen_messagebox'.text = "An error occurred: division by zero"]_vars

\* C9 witness: a click with second year digit 0 and a proper number of
\* replications has failed, with no sample drawn and no file written.
C9_Witness ==
    /\ generations >= 1
    /\ DigitVal(year_var[2]) = 0
    /\ replications_var >= 1
    /\ gen_messagebox.kind = "error"
    /\ normal_calls = 0
    /\ csv_written = 0
    /\ last_csv = None

\* C10: a click on Generate Data with replications below 1 shows an error
\* dialog, makes no call of np.random.normal and writes no file.
C10_NoReplicationsRejected ==
    [][(generations' = generations + 1 /\ replications_var' < 1) =>
            /\ NothingGenerated
            /\ gen_messagebox'.kind = "error"]_vars

\* The number of treatments the day digits d1, d2 call for.
ExpectedTreatments(day) ==
    LET sum == DigitVal(day[1]) + DigitVal(day[2])
    IN  IF sum > 4 THEN sum ELSE 4

\* A click on Generate Data with a valid configuration.
ValidClick ==
    /\ generations' = generations + 1
    /\ DigitVal(year_var'[2]) # 0
    /\ replications_var' >= 1

\* C11: a click with a valid configuration (y2 # 0, replications >= 1)
\* writes a table of exactly max(4, d1 + d2) columns, the i-th named
\* Treatment_i, each column holding exactly `replications` values.
C11_TableShape ==
    [][ValidClick =>
            /\ csv_written' = csv_written + 1
            /\ Len(last_csv'.cols) = ExpectedTreatments(day_var')
            /\ Len(last_csv'.names) = ExpectedTreatments(day_var')
            /\ \A i \in 1..Len(last_csv'.names) :
                  /\ last_csv'.names[i].prefix = "Treatment_"
                  /\ last_csv'.names[i].i = i
            /\ \A i \in 1..Len(last_csv'.cols) :
                  Len(last_csv'.cols[i].drawn) = replications_var']_vars

\* C11 witness: a table of five columns (day "05") of two values each, and
\* so more columns than the floor of four.
C11_Witness ==
    /\ last_csv # None
    /\ DigitVal(day_var[1]) + DigitVal(day_var[2]) = 5
    /\ replications_var = 2
    /\ Len(last_csv.cols) = 5
    /\ Len(last_csv.cols[5].drawn) = 2

\* The targets of treatment i, from the digits on the drop-downs.
TargetMean(i) ==
    Int2F(DigitVal(month_var'[2]) * DigitVal(day_var'[2]) + i * DigitVal(year_var'[2]))
TargetStd ==
    Num(DigitVal(month_var'[2]) * DigitVal(day_var'[2]), DigitVal(year_var'[2]))

\* |sample mean - target mean| > tol_mean or |sample std - target std| >
\* tol_std, for a sample, stated on the mean and the variance.
OutsideTolerance(sample, target_mean, target_std, tol_mean, tol_std) ==
    LET m == mean(sample)
        v == var_ddof1(sample)
        above == FAdd(target_std, tol_std)
        below == FSub(target_std, tol_std)
    IN  \/ FGt(FSub(m, target_mean), tol_mean)
        \/ FGt(FSub(target_mean, m), tol_mean)
        \/ (IsNum(v) /\ FGt(v, FMul(above, above)))
        \/ (IsNum(v) /\ FGt(below, Int2F(0)) /\ FLt(v, FMul(below, below)))

\* C12: in a click that writes a table, every treatment's column was made by
\* one call of np.random.normal, then one rescale exactly when the sample is
\* outside a tolerance, then one rounding, and nothing else; the click makes
\* as many draws as there are treatments, whatever the tolerances.
C12_OneDrawOneRescale ==
    [][(generations' = generations + 1 /\ csv_written' = csv_written + 1) =>
            /\ normal_calls' = normal_calls + ExpectedTreatments(day_var')
            /\ \A i \in 1..Len(last_csv'.cols) :
                  LET col == last_csv'.cols[i]
                      off == OutsideTolerance(col.drawn, TargetMean(i), TargetStd,
                                              tol_mean_var', tol_std_var')
                  IN  /\ col.rescaled = off
                      /\ col.steps = IF off THEN <<"normal", "rescale", "round">>
                                     ELSE <<"normal", "round">>]_vars

\* C12 witness: a table of two values a column, under the default
\* tolerances, with one column rescaled and another left as drawn, from as
\* many draws as it has columns.
C12_Witness ==
    /\ last_csv # None
    /\ replications_var = 2
    /\ tol_mean_var = Num(5, 100)
    /\ normal_calls = Len(last_csv.cols)
    /\ \E i, j \in 1..Len(last_csv.cols) :
          /\ last_csv.cols[i].steps = <<"normal", "rescale", "round">>
          /\ last_csv.cols[j].steps = <<"normal", "round">>

\* A table whose samples all pass under the widest tolerances.
C12_WitnessWide ==
    /\ last_csv # None
    /\ replications_var = 2
    /\ tol_mean_var = Num(1, 1)
    /\ \A i \in 1..Len(last_csv.cols) : ~last_csv.cols[i].rescaled

(***************************************************************************)
(* Runs side by side, under SpecRace.                                      *)
(***************************************************************************)
\* Every run started so far has finished.
AllFinished == \A i \in DOMAIN threads : threads[i].pc \in {"done", "error"}

\* Run i produced both stored tables.
ProducedBoth(i) ==
    /\ threads[i].pc = "done"
    /\ threads[i].result = anova_result
    /\ group_info(threads[i].group_names, threads[i].group_list) = group_info_df

\* Once every started run has finished, the stored group summary and the
\* stored ANOVA table were produced by one and the same run.
StoredTablesFromOneRun ==
    (AllFinished /\ anova_result # None) => \E i \in DOMAIN threads : ProducedBoth(i)

\* A run that has read its data read the table it was started on.
ComputesFromOwnTable ==
    \A i \in DOMAIN threads :
        threads[i].numeric_only # None =>
            threads[i].numeric_only = apply_to_numeric(threads[i].started_on)

\* C13: runs are independent under every interleaving of the worker threads
\* with load_csv and run_anova: each run computes from the table that was
\* loaded when it was started, and once all runs have finished the stored
\* group summary and the stored ANOVA table come from the same run.
C13_RunsIndependent == ComputesFromOwnTable /\ StoredTablesFromOneRun

(***************************************************************************)
(* The Save button, under Spec.                                            *)
(***************************************************************************)
\* Some run has completed successfully: it went through display_results.
SomeRunSucceeded == \E i \in DOMAIN threads : threads[i].pc = "done"

\* A step in which a run fails.
RunFails == \E i \in DOMAIN threads : threads[i].pc # "error" /\ threads'[i].pc = "error"

\* C14: the Save button is enabled only if some run has completed
\* successfully, and then both stored tables are there; a step in which a
\* run fails leaves the button as it was; every workbook save_to_excel has
\* written holds both tables.
C14_SaveOnlyAfterSuccess ==
    /\ [](save_button = "normal" =>
              /\ SomeRunSucceeded
              /\ anova_result # None
              /\ group_info_df # None)
    /\ [][RunFails => save_button' = save_button]_vars
    /\ [](excel_file # None => (excel_file.result # None /\ excel_file.info # None))

\* C14 witness: a workbook was saved, and a run has failed while Save
\* stayed enabled from an earlier success.
C14_Witness ==
    /\ excel_file # None
    /\ save_button = "normal"
    /\ \E i \in DOMAIN threads : threads[i].pc = "error"
    /\ SomeRunSucceeded

\* A run has failed and Save is still disabled.
C14_WitnessDisabled ==
    /\ save_button = "disabled"
    /\ \E i \in DOMAIN threads : threads[i].pc = "error"
    /\ AllFinished

====
